---- MODULE Spec2Model ----
(***************************************************************************)
(* JillBag: the Host's connection registry (JillBagHost._others) and the   *)
(* Player's Active Connection slot (JillBagPlayer._conn), driven by the    *)
(* notifications of the PeerJS transport and by the public operations.     *)
(*                                                                         *)
(* Every action is one handler or one public method of src/jillBag.js,     *)
(* executed to completion (the code is single-threaded and event-driven).  *)
(* The transport is the environment: it decides when a handle opens, when  *)
(* it closes, and what a close request does (CloseOutcomes).               *)
(***************************************************************************)
EXTENDS Integers, Sequences, FiniteSets, TLC

\* ------------------------------------------------------------------ bounds
MaxConns == 3       \* inbound connection handles the Host's transport surfaces
MaxPConns == 3      \* connection handles the Player's transport can create
MaxReady == 3       \* signaling-ready notifications delivered to the Player
NumData == 2        \* distinct payloads

Conns == 1..MaxConns
PConns == 1..MaxPConns
Data == 1..NumData
Ids == {"A", "B"}   \* Logical Player Identities declared in connection metadata
None == 0           \* no handle (null / undefined / absent Map key)
NoId == "-"

\* What a transport close request on an open handle can do: deliver the close
\* notification before returning ("sync"), deliver it at a later point
\* ("later"), or throw ("fail": the handle is left as it was).
CloseOutcomes == {"sync", "later", "fail"}

VARIABLES
    others,     \* Host: this._others, identity -> handle (None: no key)
    hstat,      \* Host: transport status of each inbound handle
    hmeta,      \* Host: conn.metadata.id of each inbound handle
    hwired,     \* Host: data/close/error listeners are attached to the handle
    hsuper,     \* Host (history): per identity, the handle whose open superseded an
                \* older one, until it closes or gets a close request itself
    hopens,     \* Host (history): calls of handleOpen made by each handle's open listener
    hlog,       \* Host: what the last handler or method did, in order
    hlast,      \* Host: the last handler or method, its arguments and result
    pconn,      \* Player: this._conn (None: null)
    pstat,      \* Player: transport status of each handle the Player created
    plisten,    \* Player: how many data/close/error listener triples each handle has
    popens,     \* Player (history): calls of handleOpen made by each handle's open listener
    ready,      \* Player (history): signaling-ready notifications received
    plog,       \* Player: what the last handler or method did, in order
    plast       \* Player: the last handler or method, its arguments and result

hvars == <<others, hstat, hmeta, hwired, hsuper, hopens, hlog, hlast>>
pvars == <<pconn, pstat, plisten, popens, ready, plog, plast>>
vars == <<others, hstat, hmeta, hwired, hsuper, hopens, hlog, hlast,
          pconn, pstat, plisten, popens, ready, plog, plast>>

\* One entry of a log: a transport request, a registry mutation or a hook call.
Ev(ev, id, c, x) == [ev |-> ev, id |-> id, c |-> c, x |-> x]
Last(op, id, c, d, ret) == [op |-> op, id |-> id, c |-> c, d |-> d, ret |-> ret]

\* The positions of the log entries that satisfy a test.
Positions(log, Test(_)) == {i \in 1..Len(log) : Test(log[i])}

\* ------------------------------------------------------------------ Host
\* The Host handlers thread a record h = [others, stat, log] through the
\* statements of the code, so that what a nested call (close inside the open
\* handler, a close listener inside conn.close()) does is kept in order.
IdSeq == <<"A", "B">>

HState == [others |-> others, stat |-> hstat, log |-> <<>>]

hLog(h, e) == [h EXCEPT !.log = Append(@, e)]

\* this._others.delete(otherId)
hDelete(h, id) == hLog([h EXCEPT !.others[id] = None], Ev("delete", id, None, 0))

\* hOnClose with the registry cleanup forgotten
hOnClose_NoDelete(h, c) == hLog(h, Ev("handleClose", hmeta[c], c, 0))

\* the close listener the open handler attaches to conn
hOnClose(h, c) ==
    LET id == hmeta[c]
    IN  hLog(hDelete(h, id), Ev("handleClose", id, c, 0))

\* conn.close() as the Host calls it: the transport's answer is o
hConnClose(h, c, o) ==
    LET h1 == hLog(h, Ev("closeReq", NoId, c, 0))
    IN  IF o = "fail" THEN h1
        ELSE IF h.stat[c] = "open"
        THEN IF o = "sync"
             THEN LET h2 == [h1 EXCEPT !.stat[c] = "closed"]
                  IN  IF hwired[c] THEN hOnClose(h2, c) ELSE h2
             ELSE [h1 EXCEPT !.stat[c] = "closing"]
        ELSE IF h.stat[c] = "pending" THEN [h1 EXCEPT !.stat[c] = "closed"]
        ELSE h1

\* hClose without the try/catch: a failing close request skips the delete
hClose_NoCatch(h, id, o) ==
    LET c == h.others[id]
        h1 == IF c # None THEN hConnClose(h, c, o) ELSE h
    IN  IF c # None /\ o = "fail" THEN h1 ELSE hDelete(h1, id)

\* JillBagHost.close(otherId)
hClose(h, id, o) ==
    LET c == h.others[id]
        h1 == IF c # None THEN hConnClose(h, c, o) ELSE h
    IN  hDelete(h1, id)

\* the loop of JillBagHost.closeAll(): a Map iteration is live, an entry
\* deleted before it is visited is skipped
RECURSIVE hCloseEach(_, _, _)
hCloseEach(h, ids, f) ==
    IF ids = <<>> THEN h
    ELSE LET id == Head(ids)
             c == h.others[id]
             h1 == IF c # None THEN hConnClose(h, c, f[id]) ELSE h
         IN  hCloseEach(h1, Tail(ids), f)

\* hCloseAll with the final clear() forgotten
hCloseAll_NoClear(h, f) == hCloseEach(h, IdSeq, f)

\* JillBagHost.closeAll()
hCloseAll(h, f) ==
    LET h1 == hCloseEach(h, IdSeq, f)
    IN  hLog([h1 EXCEPT !.others = [i \in Ids |-> None]], Ev("clear", NoId, None, 0))

\* hReconcile with the de-duplication forgotten
hReconcile_None(h, id, o) == h

\* the de-duplication step of the open handler
hReconcile(h, id, o) == IF h.others[id] # None THEN hClose(h, id, o) ELSE h

\* hAccept with the call of the open hook forgotten
hAccept_NoHook(h, c, o) ==
    LET id == hmeta[c]
        h1 == hReconcile(h, id, o)
        h2 == hLog([h1 EXCEPT !.others[id] = c], Ev("set", id, c, h1.others[id]))
    IN  hLog(h2, Ev("wire", id, c, 0))

\* the open listener of an inbound connection
hAccept(h, c, o) ==
    LET id == hmeta[c]
        h1 == hReconcile(h, id, o)
        h2 == hLog([h1 EXCEPT !.others[id] = c], Ev("set", id, c, h1.others[id]))
        h3 == hLog(h2, Ev("wire", id, c, 0))
    IN  hLog(h3, Ev("handleOpen", id, c, 0))

\* hSendRet with the guard forgotten
hSendRet_NoGuard(oth, stat, id) == TRUE

\* the result of JillBagHost.send(otherId, data)
hSendRet(oth, stat, id) ==
    LET c == oth[id]
    IN  IF c = None \/ stat[c] # "open" THEN FALSE ELSE TRUE

\* the handles a Host operation asked the transport to close
hCloseRequested(log) == {log[i].c : i \in Positions(log, LAMBDA e : e.ev = "closeReq")}

\* HostConnection registering the handle at once, before it has opened
HostConnection_Eager(c, id) ==
    /\ hstat[c] = "idle"
    /\ \A k \in Conns : k < c => hstat[k] # "idle"
    /\ hstat' = [hstat EXCEPT ![c] = "pending"]
    /\ hmeta' = [hmeta EXCEPT ![c] = id]
    /\ others' = [others EXCEPT ![id] = c]
    /\ hlog' = <<Ev("set", id, c, None)>>
    /\ hlast' = Last("connection", id, c, None, FALSE)
    /\ UNCHANGED <<hwired, hsuper, hopens>>
    /\ UNCHANGED pvars

\* peer.on('connection'): the transport surfaces inbound handle c, which
\* declares identity id; only its open listener is attached
HostConnection(c, id) ==
    /\ hstat[c] = "idle"
    /\ \A k \in Conns : k < c => hstat[k] # "idle"
    /\ hstat' = [hstat EXCEPT ![c] = "pending"]
    /\ hmeta' = [hmeta EXCEPT ![c] = id]
    /\ hlog' = <<>>
    /\ hlast' = Last("connection", id, c, None, FALSE)
    /\ UNCHANGED <<others, hwired, hsuper, hopens>>
    /\ UNCHANGED pvars

\* conn.on('open'): handle c opens; o is the transport's answer to the close
\* request on a superseded handle, if there is one
HostConnOpen(c, o) ==
    /\ hstat[c] = "pending"
    /\ LET id == hmeta[c]
           old == others[id]
           h == hAccept([HState EXCEPT !.stat[c] = "open"], c, o)
       IN  /\ old = None => o = "sync"
           /\ others' = h.others
           /\ hstat' = h.stat
           /\ hlog' = h.log
           /\ hwired' = [hwired EXCEPT ![c] = TRUE]
           /\ hopens' = [hopens EXCEPT ![c] = @ + Cardinality(
                             Positions(h.log, LAMBDA e : e.ev = "handleOpen"))]
           /\ hsuper' = [hsuper EXCEPT ![id] = IF old # None THEN c ELSE None]
           /\ hlast' = Last("connOpen", id, c, None, FALSE)
    /\ UNCHANGED hmeta
    /\ UNCHANGED pvars

\* conn.on('data'): payload d arrives on handle c
HostConnData(c, d) ==
    /\ hstat[c] = "open"
    /\ hwired[c]
    /\ hlog' = <<Ev("handleData", hmeta[c], c, d)>>
    /\ hlast' = Last("connData", hmeta[c], c, d, FALSE)
    /\ UNCHANGED <<others, hstat, hmeta, hwired, hsuper, hopens>>
    /\ UNCHANGED pvars

\* conn.on('close'): the close notification of handle c is delivered, either
\* because the transport closed an open handle or because a close request
\* answered "later"
HostConnClosed(c) ==
    /\ hstat[c] \in {"open", "closing"}
    /\ hwired[c]
    /\ LET h == hOnClose([HState EXCEPT !.stat[c] = "closed"], c)
       IN  /\ others' = h.others
           /\ hstat' = h.stat
           /\ hlog' = h.log
    /\ hsuper' = [i \in Ids |-> IF hsuper[i] = c THEN None ELSE hsuper[i]]
    /\ hlast' = Last("connClosed", hmeta[c], c, None, FALSE)
    /\ UNCHANGED <<hmeta, hwired, hopens>>
    /\ UNCHANGED pvars

\* conn.on('error')
HostConnError(c) ==
    /\ hstat[c] = "open"
    /\ hwired[c]
    /\ hlog' = <<Ev("handleError", hmeta[c], c, 0)>>
    /\ hlast' = Last("connError", hmeta[c], c, None, FALSE)
    /\ UNCHANGED <<others, hstat, hmeta, hwired, hsuper, hopens>>
    /\ UNCHANGED pvars

\* JillBagHost.send(otherId, data)
HostSend(id, d) ==
    /\ LET ret == hSendRet(others, hstat, id)
       IN  /\ hlog' = IF ret THEN <<Ev("send", id, others[id], d)>> ELSE <<>>
           /\ hlast' = Last("send", id, None, d, ret)
    /\ UNCHANGED <<others, hstat, hmeta, hwired, hsuper, hopens>>
    /\ UNCHANGED pvars

\* JillBagHost.close(otherId)
HostClose(id, o) ==
    /\ others[id] = None => o = "sync"
    /\ LET h == hClose(HState, id, o)
       IN  /\ others' = h.others
           /\ hstat' = h.stat
           /\ hlog' = h.log
    /\ hsuper' = [i \in Ids |->
                    IF hsuper[i] \in hCloseRequested(hlog') THEN None ELSE hsuper[i]]
    /\ hlast' = Last("close", id, None, None, FALSE)
    /\ UNCHANGED <<hmeta, hwired, hopens>>
    /\ UNCHANGED pvars

\* JillBagHost.closeAll(); f[id] is the transport's answer to the close
\* request on the handle registered under id
HostCloseAll(f) ==
    /\ \A id \in Ids : others[id] = None => f[id] = "sync"
    /\ LET h == hCloseAll(HState, f)
       IN  /\ others' = h.others
           /\ hstat' = h.stat
           /\ hlog' = h.log
    /\ hsuper' = [i \in Ids |->
                    IF hsuper[i] \in hCloseRequested(hlog') THEN None ELSE hsuper[i]]
    /\ hlast' = Last("closeAll", NoId, None, None, FALSE)
    /\ UNCHANGED <<hmeta, hwired, hopens>>
    /\ UNCHANGED pvars

\* peer.on('open') of the Host: handlePeerReady only
HostPeerOpen ==
    /\ hlog' = <<Ev("handlePeerReady", NoId, None, 0)>>
    /\ hlast' = Last("peerOpen", NoId, None, None, FALSE)
    /\ UNCHANGED <<others, hstat, hmeta, hwired, hsuper, hopens>>
    /\ UNCHANGED pvars

\* peer.on('error') of the Host: handlePeerError only
HostPeerError ==
    /\ hlog' = <<Ev("handlePeerError", NoId, None, 0)>>
    /\ hlast' = Last("peerError", NoId, None, None, FALSE)
    /\ UNCHANGED <<others, hstat, hmeta, hwired, hsuper, hopens>>
    /\ UNCHANGED pvars

\* peer.on('disconnected') of the Host: this._peer.reconnect()
HostPeerDisconnected ==
    /\ hlog' = <<Ev("reconnect", NoId, None, 0)>>
    /\ hlast' = Last("peerDisconnected", NoId, None, None, FALSE)
    /\ UNCHANGED <<others, hstat, hmeta, hwired, hsuper, hopens>>
    /\ UNCHANGED pvars

HostNext ==
    \/ \E c \in Conns, id \in Ids : HostConnection(c, id)
    \/ \E c \in Conns, o \in CloseOutcomes : HostConnOpen(c, o)
    \/ \E c \in Conns, d \in Data : HostConnData(c, d)
    \/ \E c \in Conns : HostConnClosed(c)
    \/ \E c \in Conns : HostConnError(c)
    \/ \E id \in Ids, d \in Data : HostSend(id, d)
    \/ \E id \in Ids, o \in CloseOutcomes : HostClose(id, o)
    \/ \E f \in [Ids -> CloseOutcomes] : HostCloseAll(f)
    \/ HostPeerOpen
    \/ HostPeerError
    \/ HostPeerDisconnected

\* the state after both constructors
Init ==
    /\ others = [i \in Ids |-> None]
    /\ hstat = [c \in Conns |-> "idle"]
    /\ hmeta = [c \in Conns |-> NoId]
    /\ hwired = [c \in Conns |-> FALSE]
    /\ hsuper = [i \in Ids |-> None]
    /\ hopens = [c \in Conns |-> 0]
    /\ hlog = <<>>
    /\ hlast = Last("new", NoId, None, None, FALSE)
    /\ pconn = None
    /\ pstat = [c \in PConns |-> "idle"]
    /\ plisten = [c \in PConns |-> 0]
    /\ popens = [c \in PConns |-> 0]
    /\ ready = 0
    /\ plog = <<>>
    /\ plast = Last("new", NoId, None, None, FALSE)

HostSpec == Init /\ [][HostNext]_vars

\* ------------------------------------------------------------------ Player
\* The Player handlers thread a record p = [conn, stat, listen, log].
PState == [conn |-> pconn, stat |-> pstat, listen |-> plisten, log |-> <<>>]

pLog(p, e) == [p EXCEPT !.log = Append(@, e)]

\* pOnClose with the hook called before the slot is cleared
pOnClose_HookFirst(p) ==
    LET p1 == pLog(p, Ev("handleClose", NoId, None,
                         IF p.conn = None \/ p.stat[p.conn] # "open" THEN 0 ELSE 1))
    IN  pLog([p1 EXCEPT !.conn = None], Ev("clearSlot", NoId, None, 0))

\* the close listener the open handler attaches: it clears the slot, then
\* calls the close hook; the handleClose entry records in x what sendHost
\* would return inside the hook (1: true, 0: false)
pOnClose(p) ==
    LET p1 == pLog([p EXCEPT !.conn = None], Ev("clearSlot", NoId, None, 0))
    IN  pLog(p1, Ev("handleClose", NoId, None,
                    IF p1.conn = None \/ p1.stat[p1.conn] # "open" THEN 0 ELSE 1))

\* the n close listeners of one handle, in turn
RECURSIVE pEmitClose(_, _)
pEmitClose(p, n) == IF n = 0 THEN p ELSE pEmitClose(pOnClose(p), n - 1)

\* conn.close() as the Player calls it: the transport's answer is o
pConnClose(p, c, o) ==
    LET p1 == pLog(p, Ev("closeReq", NoId, c, 0))
    IN  IF o = "fail" THEN p1
        ELSE IF p.stat[c] = "open"
        THEN IF o = "sync"
             THEN pEmitClose([p1 EXCEPT !.stat[c] = "closed"], p.listen[c])
             ELSE [p1 EXCEPT !.stat[c] = "closing"]
        ELSE IF p.stat[c] = "pending" THEN [p1 EXCEPT !.stat[c] = "closed"]
        ELSE p1

\* pCloseHost without the try/catch: a failing close request skips the clearing
pCloseHost_NoCatch(p, o) ==
    LET p1 == IF p.conn # None THEN pConnClose(p, p.conn, o) ELSE p
    IN  IF p.conn # None /\ o = "fail" THEN p1
        ELSE pLog([p1 EXCEPT !.conn = None], Ev("clearSlot", NoId, None, 0))

\* JillBagPlayer.closeHost()
pCloseHost(p, o) ==
    LET p1 == IF p.conn # None THEN pConnClose(p, p.conn, o) ELSE p
    IN  pLog([p1 EXCEPT !.conn = None], Ev("clearSlot", NoId, None, 0))

\* pNeedConnect with the test forgotten: every signaling-ready connects
pNeedConnect_Always(p) == TRUE

\* the test of the signaling-ready handler: no connection currently open
pNeedConnect(p) == p.conn = None \/ p.stat[p.conn] # "open"

\* JillBagPlayer._connectToHost(): peer.connect returns the fresh handle c,
\* which goes into the slot; its open listener is attached
pConnectToHost(p, c) ==
    pLog([p EXCEPT !.conn = c, !.stat[c] = "pending"], Ev("connect", NoId, c, 0))

\* the signaling-ready handler of the Player
pOnPeerOpen(p, c) ==
    LET p1 == IF pNeedConnect(p) THEN pConnectToHost(p, c) ELSE p
    IN  pLog(p1, Ev("handlePeerReady", NoId, None, 0))

\* the result of JillBagPlayer.sendHost(data)
pSendHostRet(conn, stat) ==
    IF conn = None \/ stat[conn] # "open" THEN FALSE ELSE TRUE

\* the open listener of handle c: it attaches the data/close/error listeners
\* to whatever handle the slot holds at that moment (this._conn.on(...)), and
\* faults when the slot is null; the handleOpen entry records in x what
\* sendHost would return inside the hook (1: true, 0: false)
pOnOpen(p, c) ==
    IF p.conn = None
    THEN pLog(p, Ev("TypeError", NoId, c, 0))
    ELSE LET p1 == pLog([p EXCEPT !.listen[p.conn] = @ + 1], Ev("wire", NoId, p.conn, 0))
         IN  pLog(p1, Ev("handleOpen", NoId, c,
                         IF pSendHostRet(p1.conn, p1.stat) THEN 1 ELSE 0))

\* the connect attempts issued so far: every handle peer.connect has returned
attempts == Cardinality({c \in PConns : pstat[c] # "idle"})

\* peer.on('open') of the Player: signaling is ready; c is the handle
\* peer.connect returns if the handler connects (the next unused one)
PlayerPeerOpen(c) ==
    /\ ready < MaxReady
    /\ IF pNeedConnect(PState)
       THEN pstat[c] = "idle" /\ \A k \in PConns : k < c => pstat[k] # "idle"
       ELSE c = 1
    /\ LET p == pOnPeerOpen(PState, c)
       IN  /\ pconn' = p.conn
           /\ pstat' = p.stat
           /\ plog' = p.log
    /\ ready' = ready + 1
    /\ plast' = Last("peerOpen", NoId, None, None, FALSE)
    /\ UNCHANGED <<plisten, popens>>
    /\ UNCHANGED hvars

\* conn.on('open') of the Player: handle c opens
PlayerConnOpen(c) ==
    /\ pstat[c] = "pending"
    /\ LET p == pOnOpen([PState EXCEPT !.stat[c] = "open"], c)
       IN  /\ pconn' = p.conn
           /\ pstat' = p.stat
           /\ plisten' = p.listen
           /\ popens' = [popens EXCEPT ![c] = @ + Cardinality(
                             Positions(p.log, LAMBDA e : e.ev = "handleOpen"))]
           /\ plog' = p.log
    /\ plast' = Last("connOpen", NoId, c, None, FALSE)
    /\ UNCHANGED ready
    /\ UNCHANGED hvars

\* conn.on('data') of the Player: payload d arrives on handle c; each data
\* listener of c calls the data hook
PlayerConnData(c, d) ==
    /\ pstat[c] = "open"
    /\ plog' = [i \in 1..plisten[c] |-> Ev("handleData", NoId, c, d)]
    /\ plast' = Last("connData", NoId, c, d, FALSE)
    /\ UNCHANGED <<pconn, pstat, plisten, popens, ready>>
    /\ UNCHANGED hvars

\* conn.on('close') of the Player: the close notification of handle c is
\* delivered (the transport closed it, or a close request answered "later")
PlayerConnClosed(c) ==
    /\ pstat[c] \in {"open", "closing"}
    /\ LET p == pEmitClose([PState EXCEPT !.stat[c] = "closed"], plisten[c])
       IN  /\ pconn' = p.conn
           /\ pstat' = p.stat
           /\ plog' = p.log
    /\ plast' = Last("connClosed", NoId, c, None, FALSE)
    /\ UNCHANGED <<plisten, popens, ready>>
    /\ UNCHANGED hvars

\* conn.on('error') of the Player: each error listener of c calls the hook
PlayerConnError(c) ==
    /\ pstat[c] = "open"
    /\ plog' = [i \in 1..plisten[c] |-> Ev("handleError", NoId, c, 0)]
    /\ plast' = Last("connError", NoId, c, None, FALSE)
    /\ UNCHANGED <<pconn, pstat, plisten, popens, ready>>
    /\ UNCHANGED hvars

\* JillBagPlayer.sendHost(data)
PlayerSendHost(d) ==
    /\ LET ret == pSendHostRet(pconn, pstat)
       IN  /\ plog' = IF ret THEN <<Ev("send", NoId, pconn, d)>> ELSE <<>>
           /\ plast' = Last("sendHost", NoId, None, d, ret)
    /\ UNCHANGED <<pconn, pstat, plisten, popens, ready>>
    /\ UNCHANGED hvars

\* JillBagPlayer.closeHost()
PlayerCloseHost(o) ==
    /\ pconn = None => o = "sync"
    /\ LET p == pCloseHost(PState, o)
       IN  /\ pconn' = p.conn
           /\ pstat' = p.stat
           /\ plog' = p.log
    /\ plast' = Last("closeHost", NoId, None, None, FALSE)
    /\ UNCHANGED <<plisten, popens, ready>>
    /\ UNCHANGED hvars

\* peer.on('error') of the Player: handlePeerError only
PlayerPeerError ==
    /\ plog' = <<Ev("handlePeerError", NoId, None, 0)>>
    /\ plast' = Last("peerError", NoId, None, None, FALSE)
    /\ UNCHANGED <<pconn, pstat, plisten, popens, ready>>
    /\ UNCHANGED hvars

\* PlayerPeerDisconnected dialling the Host again besides reconnecting
PlayerPeerDisconnected_Redial ==
    /\ \E c \in PConns :
          /\ pstat[c] = "idle"
          /\ pconn' = c
          /\ pstat' = [pstat EXCEPT ![c] = "pending"]
          /\ plog' = <<Ev("reconnect", NoId, None, 0), Ev("connect", NoId, c, 0)>>
    /\ plast' = Last("peerDisconnected", NoId, None, None, FALSE)
    /\ UNCHANGED <<plisten, popens, ready>>
    /\ UNCHANGED hvars

\* peer.on('disconnected') of the Player: this._peer.reconnect()
PlayerPeerDisconnected ==
    /\ plog' = <<Ev("reconnect", NoId, None, 0)>>
    /\ plast' = Last("peerDisconnected", NoId, None, None, FALSE)
    /\ UNCHANGED <<pconn, pstat, plisten, popens, ready>>
    /\ UNCHANGED hvars

PlayerNext ==
    \/ \E c \in PConns : PlayerPeerOpen(c)
    \/ \E c \in PConns : PlayerConnOpen(c)
    \/ \E c \in PConns, d \in Data : PlayerConnData(c, d)
    \/ \E c \in PConns : PlayerConnClosed(c)
    \/ \E c \in PConns : PlayerConnError(c)
    \/ \E d \in Data : PlayerSendHost(d)
    \/ \E o \in CloseOutcomes : PlayerCloseHost(o)
    \/ PlayerPeerError
    \/ PlayerPeerDisconnected

PlayerSpec == Init /\ [][PlayerNext]_vars

\* ------------------------------------------------------------------ claims: Host
\* the handles the last Host handler or method asked the transport to close
hRequested == hCloseRequested(hlog)

\* C1: when an inbound connection for identity I opens while the registry
\* holds an entry for I, the old handle gets a close request and the entry
\* is removed before the new handle is inserted; no insertion ever finds the
\* key still held by an older handle.
C1_Step ==
    /\ \A i \in 1..Len(hlog') : hlog'[i].ev = "set" => hlog'[i].x = None
    /\ \A c \in Conns :
         (hlast'.op = "connOpen" /\ hlast'.c = c /\ hstat[c] = "pending"
            /\ others[hmeta[c]] # None) =>
           LET id == hmeta[c]
               old == others[id]
               req == Positions(hlog', LAMBDA e : e.ev = "closeReq" /\ e.c = old)
               del == Positions(hlog', LAMBDA e : e.ev = "delete" /\ e.id = id)
               ins == Positions(hlog', LAMBDA e : e.ev = "set" /\ e.id = id /\ e.c = c)
           IN  /\ Cardinality(ins) = 1
               /\ \A k \in ins : \E i \in req, j \in del : i < j /\ j < k
               /\ others'[id] = c
C1_LastConnectWins == [][C1_Step]_vars

C1_Witness ==
    /\ hlast.op = "connOpen"
    /\ hRequested # {}
    /\ hsuper[hlast.id] = hlast.c
    /\ others[hlast.id] = hlast.c

\* C2: once a second connection for identity I has superseded a first one,
\* the registry holds the second connection under I in every later state in
\* which the second connection is still open and has not been evicted,
\* whenever the first connection's close notification is delivered.
C2_SupersederStaysRegistered ==
    \A id \in Ids :
        (hsuper[id] # None /\ hstat[hsuper[id]] = "open") => others[id] = hsuper[id]

\* C3: the registry holds at most one entry per identity (and a handle under
\* at most one identity, the one it declared), and every registered handle
\* has had its open notification handled and is still open.
C3_RegistryOpen ==
    /\ \A id \in Ids : others[id] # None =>
          /\ hstat[others[id]] = "open"
          /\ hwired[others[id]]
          /\ hmeta[others[id]] = id
    /\ \A i, j \in Ids : (others[i] # None /\ others[i] = others[j]) => i = j

C3_Witness ==
    /\ \A id \in Ids : others[id] # None
    /\ \E c \in Conns : hstat[c] = "closed"

\* C4: send(identity, data) returns false, forwards nothing, fires no hook
\* and leaves the registry alone when the identity has no entry or its handle
\* is not open; otherwise it forwards data once to exactly the registered
\* handle and returns true.
C4_Step ==
    \A id \in Ids, d \in Data :
        (hlast'.op = "send" /\ hlast'.id = id /\ hlast'.d = d) =>
            /\ others' = others /\ hstat' = hstat /\ hwired' = hwired
            /\ IF others[id] = None \/ hstat[others[id]] # "open"
               THEN hlast'.ret = FALSE /\ hlog' = <<>>
               ELSE hlast'.ret = TRUE /\ hlog' = <<Ev("send", id, others[id], d)>>
C4_Send == [][C4_Step]_vars

C4_Witness ==
    /\ hlast.op = "send" /\ hlast.ret = TRUE
    /\ hlog = <<Ev("send", hlast.id, others[hlast.id], hlast.d)>>
    /\ \E id \in Ids : others[id] = None

\* C5: closeAll() requests close on every registered handle and returns with
\* the registry empty, whatever the close requests do, so that send returns
\* false for every identity.
C5_Step ==
    hlast'.op = "closeAll" =>
        /\ \A id \in Ids : others'[id] = None
        /\ \A id \in Ids : hSendRet(others', hstat', id) = FALSE
        /\ \A id \in Ids : others[id] # None => others[id] \in hCloseRequested(hlog')
C5_CloseAll == [][C5_Step]_vars

C5_Witness ==
    /\ hlast.op = "closeAll"
    /\ Cardinality(hRequested) = 2
    /\ \E c \in hRequested : hstat[c] = "open"
    /\ \E c \in hRequested : hstat[c] = "closed"

\* C6: close(identity) does nothing on an unknown identity; on a known one it
\* requests close on the registered handle and removes the entry, also when
\* the request fails; a second call leaves the registry as the first did; the
\* entries of the other identities are untouched.
C6_Step ==
    \A id \in Ids :
        (hlast'.op = "close" /\ hlast'.id = id) =>
            /\ others'[id] = None
            /\ \A j \in Ids \ {id} : others'[j] = others[j]
            /\ others[id] = None =>
                  /\ others' = others /\ hstat' = hstat /\ hwired' = hwired
                  /\ hCloseRequested(hlog') = {}
            /\ others[id] # None => hCloseRequested(hlog') = {others[id]}
            /\ \A o \in CloseOutcomes :
                  LET again == hClose([others |-> others', stat |-> hstat', log |-> <<>>], id, o)
                  IN  again.others = others' /\ again.stat = hstat'
C6_Close == [][C6_Step]_vars

C6_Witness ==
    /\ hlast.op = "close"
    /\ \E c \in hRequested : hstat[c] = "open" /\ hmeta[c] = hlast.id
    /\ \E j \in Ids \ {hlast.id} : others[j] # None

\* ------------------------------------------------------------------ claims: Player
\* the handles the last Player handler or method asked the transport to close
pRequested == {plog[i].c : i \in Positions(plog, LAMBDA e : e.ev = "closeReq")}

\* the handles the Player created that are pending or open
pOutstanding == {c \in PConns : pstat[c] \in {"pending", "open"}}

\* C7: the Player issues at most one connect attempt per signaling-ready
\* notification, only when no connection is open, and at no other time: the
\* attempts never exceed the notifications, and a notification received
\* while the slot's connection is open issues none and leaves the slot alone.
C7_Step ==
    LET created == {c \in PConns : pstat[c] = "idle" /\ pstat'[c] # "idle"}
    IN  /\ created # {} =>
              /\ Cardinality(created) = 1
              /\ ready' = ready + 1
              /\ (pconn = None \/ pstat[pconn] # "open")
              /\ \A c \in created : pconn' = c /\ pstat'[c] = "pending"
        /\ (ready' = ready + 1 /\ pconn # None /\ pstat[pconn] = "open") =>
              created = {} /\ pconn' = pconn /\ pstat' = pstat
        /\ attempts' <= ready'
C7_OneAttemptPerReady == [][C7_Step]_vars

C7_Witness ==
    /\ plast.op = "peerOpen"
    /\ ready = 2 /\ attempts = 1
    /\ pconn # None /\ pstat[pconn] = "open"

\* C8: at most one handle created by the Player is outstanding (pending or
\* open) in every reachable state.
C8_OneOutstanding == Cardinality(pOutstanding) <= 1

\* C9: sendHost returns false and forwards nothing when the slot is empty or
\* its handle is not open, and it returns true (forwarding to the slot's
\* handle) when called right after a connection's open notification has been
\* delivered, for example from inside the open hook.
C9_SendHost ==
    /\ plast.op = "sendHost" =>
          IF pconn = None \/ pstat[pconn] # "open"
          THEN plast.ret = FALSE /\ plog = <<>>
          ELSE plast.ret = TRUE /\ plog = <<Ev("send", NoId, pconn, plast.d)>>
    /\ plast.op = "connOpen" =>
          /\ pSendHostRet(pconn, pstat)
          /\ \A i \in 1..Len(plog) : plog[i].ev = "handleOpen" => plog[i].x = 1

\* C10: closeHost() leaves the slot empty from any slot state, also when the
\* close request fails; a second call changes nothing; sendHost returns
\* false after it, and turns true again only when a connection opens.
C10_Step ==
    /\ plast'.op = "closeHost" =>
          /\ pconn' = None
          /\ ~pSendHostRet(pconn', pstat')
          /\ pconn # None => pRequested' = {pconn}
          /\ pconn = None => pRequested' = {} /\ pstat' = pstat /\ plisten' = plisten
          /\ \A o \in CloseOutcomes :
                LET again == pCloseHost([conn |-> pconn', stat |-> pstat',
                                         listen |-> plisten', log |-> <<>>], o)
                IN  again.conn = None /\ again.stat = pstat' /\ again.listen = plisten'
    /\ (~pSendHostRet(pconn, pstat) /\ pSendHostRet(pconn', pstat')) =>
          plast'.op = "connOpen"
C10_CloseHost == [][C10_Step]_vars

C10_Witness ==
    /\ plast.op = "closeHost"
    /\ pconn = None
    /\ \E c \in pRequested : pstat[c] = "open"

\* ------------------------------------------------------------------ Host and Player together
\* The Player dials the Host: the Player's k-th connect attempt is the Host's
\* k-th inbound connection, and it carries the Player's identity as metadata.
\* Each end gets its own open and close notifications. LinkSpec has the
\* lifecycle notifications only and no close / closeAll / closeHost call: it
\* is the system before any close is asked for.
PlayerId == "A"

\* peer.on('connection') of the Host for the Player's connect attempt c
LinkConnection(c) ==
    /\ c \in PConns
    /\ pstat[c] # "idle"
    /\ HostConnection(c, PlayerId)

LinkNext ==
    \/ \E c \in PConns : PlayerPeerOpen(c)
    \/ \E c \in Conns : LinkConnection(c)
    \/ \E c \in Conns, o \in CloseOutcomes : HostConnOpen(c, o)
    \/ \E c \in PConns : PlayerConnOpen(c)
    \/ \E c \in Conns : HostConnClosed(c)
    \/ \E c \in PConns : PlayerConnClosed(c)

LinkSpec == Init /\ [][LinkNext]_vars

\* the Player has made one connect attempt, the Host has seen one inbound
\* connection, and that connection is open at both ends
SingleOpenBothSides ==
    /\ attempts = 1
    /\ {c \in Conns : hstat[c] # "idle"} = {1}
    /\ pstat[1] = "open"
    /\ hstat[1] = "open"

\* C11: after the Player's single connection has opened on both sides, the
\* registry has exactly one entry, keyed by the Player's identity and holding
\* that connection, and each side's open hook has been called exactly once.
C11_SingleConnection ==
    SingleOpenBothSides =>
        /\ {id \in Ids : others[id] # None} = {PlayerId}
        /\ others[PlayerId] = 1
        /\ hmeta[1] = PlayerId
        /\ hopens[1] = 1 /\ \A c \in Conns \ {1} : hopens[c] = 0
        /\ popens[1] = 1 /\ \A c \in PConns \ {1} : popens[c] = 0

C11_Witness == SingleOpenBothSides /\ ready > 1

\* ------------------------------------------------------------------ claims: C12 to C14
\* C12: the registry entry of identity I holding handle c changes only by
\* c's own close notification, by close(I), by closeAll or by the open of a
\* newer connection for I; the close notification of any other handle leaves
\* it alone.
C12_Step ==
    \A id \in Ids :
        (others[id] # None /\ others'[id] # others[id]) =>
            \/ hlast'.op = "connClosed" /\ hlast'.c = others[id]
            \/ hlast'.op = "close" /\ hlast'.id = id
            \/ hlast'.op = "closeAll"
            \/ hlast'.op = "connOpen" /\ hlast'.id = id
C12_EntryRemovedOnlyByOwner == [][C12_Step]_vars

\* C13: every call of the Player's close hook comes right after the slot
\* was cleared, and sendHost called inside the hook returns false.
C13_SlotClearedBeforeHook ==
    /\ \A i \in 1..Len(plog) :
          plog[i].ev = "handleClose" =>
              /\ plog[i].x = 0
              /\ i > 1 /\ plog[i - 1].ev = "clearSlot"
    /\ (plast.op = "connClosed" /\ plisten[plast.c] > 0) =>
          /\ pconn = None
          /\ Cardinality(Positions(plog, LAMBDA e : e.ev = "handleClose")) = plisten[plast.c]

C13_Witness ==
    /\ plast.op = "connClosed"
    /\ Len(plog) = 2
    /\ plog[2].ev = "handleClose"
    /\ \E c \in PConns : c # plast.c /\ pstat[c] = "open"

\* C14: an inbound connection that has been surfaced but has not opened is
\* not in the registry, has no data/close/error listener, appears in no hook
\* call or transport request, and its surfacing changes nothing else.
C14_Step ==
    /\ \A c \in Conns :
          hstat'[c] = "pending" =>
              /\ \A id \in Ids : others'[id] # c
              /\ ~hwired'[c]
              /\ hopens'[c] = 0
              /\ \A i \in 1..Len(hlog') : hlog'[i].c # c
    /\ hlast'.op = "connection" =>
          /\ others' = others
          /\ hwired' = hwired
          /\ hlog' = <<>>
          /\ \A c \in Conns : hstat[c] # "idle" => hstat'[c] = hstat[c]
C14_NothingBeforeOpen == [][C14_Step]_vars

C14_Witness ==
    /\ hlast.op = "connection"
    /\ others[hlast.id] # None
    /\ hmeta[others[hlast.id]] = hmeta[hlast.c]
    /\ hstat[hlast.c] = "pending"


\* ------------------------------------------------------------------ each session on its own
\* SoloSpec is a Host running alone or a Player running alone: the two
\* classes share no state, so a claim about both is checked on each.
SoloHost == plast.op = "new" /\ HostNext

SoloPlayer == hlast.op = "new" /\ PlayerNext

SoloNext == SoloHost \/ SoloPlayer

SoloSpec == Init /\ [][SoloNext]_vars

\* the registry, the slot and the handles of both sides
Connections == <<others, hstat, hwired, pconn, pstat, plisten>>

\* C15: signaling-level error and disconnected notifications leave the
\* registry, the slot and every handle unchanged; disconnected makes exactly
\* one reconnect request and neither a connect attempt nor a close request;
\* error calls the peer-error hook only.
C15_Step ==
    /\ hlast'.op = "peerError" =>
          Connections' = Connections /\ hlog' = <<Ev("handlePeerError", NoId, None, 0)>>
    /\ hlast'.op = "peerDisconnected" =>
          Connections' = Connections /\ hlog' = <<Ev("reconnect", NoId, None, 0)>>
    /\ plast'.op = "peerError" =>
          Connections' = Connections /\ plog' = <<Ev("handlePeerError", NoId, None, 0)>>
    /\ plast'.op = "peerDisconnected" =>
          Connections' = Connections /\ plog' = <<Ev("reconnect", NoId, None, 0)>>
C15_SignalingFrame == [][C15_Step]_vars

C15_Witness ==
    \/ /\ hlast.op = "peerDisconnected"
       /\ \A id \in Ids : others[id] # None
    \/ /\ plast.op = "peerDisconnected"
       /\ pconn # None /\ pstat[pconn] = "pending"

\* C16, the part about the error notification itself: a connection-level
\* error calls the connection-error hook only (tagged with the identity on
\* the Host) and leaves the registry, the slot and every handle unchanged.
C16_ErrorStep ==
    /\ hlast'.op = "connError" =>
          /\ Connections' = Connections
          /\ hlog' = <<Ev("handleError", hmeta[hlast'.c], hlast'.c, 0)>>
    /\ plast'.op = "connError" =>
          /\ Connections' = Connections
          /\ \A i \in 1..Len(plog') : plog'[i].ev = "handleError"
C16_ErrorFrame == [][C16_ErrorStep]_vars

\* C16, the part about clearing: an entry is cleared only by the close
\* notification of the connection it holds, by close or by closeAll; the slot
\* only by the close notification of the connection it holds or by closeHost.
C16_ClearStep ==
    /\ \A id \in Ids :
          (others[id] # None /\ others'[id] = None) =>
              \/ hlast'.op = "connClosed" /\ hlast'.c = others[id]
              \/ hlast'.op = "close" /\ hlast'.id = id
              \/ hlast'.op = "closeAll"
    /\ (pconn # None /\ pconn' = None) =>
          \/ plast'.op = "connClosed" /\ plast'.c = pconn
          \/ plast'.op = "closeHost"

\* C16: a connection-level error only calls the connection-error hook and
\* changes neither registry nor slot, and an entry or the slot is cleared only
\* by the connection's close notification or by close, closeAll or closeHost.
C16_ErrorsDoNotEvict == [][C16_ErrorStep /\ C16_ClearStep]_vars

\* ------------------------------------------------------------------ claims: C17 to C20
\* C17: the close notification of a handle that is not the one the slot
\* holds leaves the slot unchanged.
C17_Step ==
    \A c \in PConns :
        (plast'.op = "connClosed" /\ plast'.c = c /\ pstat[c] # "closed"
            /\ pstat'[c] = "closed" /\ pconn # c) => pconn' = pconn
C17_StaleCloseKeepsSlot == [][C17_Step]_vars

\* C18: the Player's open listener never faults and attaches the
\* data/close/error listeners to the handle whose open notification fired.
C18_OpenWiresOwnHandle ==
    plast.op = "connOpen" =>
        /\ \A i \in 1..Len(plog) : plog[i].ev # "TypeError"
        /\ \E i \in 1..Len(plog) : plog[i].ev = "wire"
        /\ \A i \in 1..Len(plog) : plog[i].ev = "wire" => plog[i].c = plast.c

\* C19: a data notification on the connection the slot holds calls the data
\* hook exactly once, and its close notification calls the close hook
\* exactly once.
C19_Step ==
    /\ (plast'.op = "connData" /\ pconn # None /\ plast'.c = pconn
          /\ pstat[pconn] = "open") =>
          Cardinality(Positions(plog', LAMBDA e : e.ev = "handleData")) = 1
    /\ (plast'.op = "connClosed" /\ pconn # None /\ plast'.c = pconn
          /\ pstat[pconn] # "closed" /\ pstat'[pconn] = "closed") =>
          Cardinality(Positions(plog', LAMBDA e : e.ev = "handleClose")) = 1
C19_HooksOncePerNotification == [][C19_Step]_vars

\* C20: the Host calls the data hook tagged with identity I only for data
\* arriving on the handle currently registered for I.
C20_DataOnlyFromRegistered ==
    \A i \in 1..Len(hlog) :
        hlog[i].ev = "handleData" => others[hlog[i].id] = hlog[i].c

Next == HostNext \/ PlayerNext

Spec == Init /\ [][Next]_vars

====
